---- MODULE Spec2Model ----
(***************************************************************************)
(* A model of valve/steam/api/interface.py: the parameter table of a       *)
(* method (_MethodParameters), the version resolution of make_interface,   *)
(* and the API client (construction, request, session, pin_versions).      *)
(*                                                                         *)
(* Python strings are sequences of one-character strings, so that          *)
(* sanitisation, sorting and joining are computed character by character.  *)
(* Python integers are a sign and a sequence of decimal digits, so that    *)
(* the uint32 and uint64 bounds are compared without overflow.             *)
(*                                                                         *)
(* Four specifications share the variables, each leaving the others' idle: *)
(* SpecParams (one parameter table), SpecIface (one make_interface call),  *)
(* SpecAPI (a client, its requests and its session) and SpecPins (a        *)
(* client, its pin_versions() and the client rebuilt from them).           *)
(***************************************************************************)
EXTENDS Integers, Sequences, FiniteSets, TLC

VARIABLES
    p_specs,    \* the raw parameter descriptions given to _MethodParameters
    p_phase,    \* "new", "built", "failed", "signed", "validated"
    p_table,    \* the OrderedDict: a sequence of parameter records, in order
    p_error,    \* the exception of the constructor, or "none"
    p_warnings, \* the declared types the constructor warned about, in order
    p_sig,      \* the string returned by signature
    p_kwargs,   \* the keyword arguments of the validate() call
    p_ret,      \* what validate() did: [error, values]
    i_spec,     \* the interface description given to make_interface
    i_versions, \* the pins given to make_interface
    i_phase,    \* "new", "built", "failed"
    i_methods,  \* the methods dictionary of the built interface
    i_warnings, \* the warnings make_interface emitted, in order
    catalog,    \* what the server answers to GetSupportedAPIList
    api,        \* the client built by API(...), or NoClient
    given,      \* the versions argument api was built with
    sub,        \* the client yielded by api.session(), or NoClient
    api2,       \* the client rebuilt from pin_versions(), or NoClient
    pins,       \* the mapping returned by pin_versions(), or NoPins
    sent,       \* the calls made on the transport, in order
    builds,     \* how many times make_interfaces has run
    last        \* the last operation on a client and how it ended

p_vars == <<p_specs, p_phase, p_table, p_error, p_warnings, p_sig, p_kwargs,
           p_ret>>
i_vars == <<i_spec, i_versions, i_phase, i_methods, i_warnings>>
a_vars == <<catalog, api, given, sub, api2, pins, sent, builds, last>>
vars == <<p_vars, i_vars, a_vars>>

-----------------------------------------------------------------------------
(* Characters and strings *)

Str_key == <<"k", "e", "y">>
Str_a == <<"a">>
Str_b == <<"b">>
Str_self == <<"s", "e", "l", "f">>
Str_eqNone == <<"=", "N", "o", "n", "e">>
Str_sep == <<",", " ">>

Letters == {"a", "b", "e", "k", "y", "x"}
Digits == {"0", "1", "2", "3", "4", "5", "6", "7", "8", "9"}

\* string.ascii_letters + string.digits + "_"
IdentChars == Letters \cup Digits \cup {"_"}
\* string.ascii_letters + "_"
IdentStart == Letters \cup {"_"}

\* The code point of a character: what Python's string comparison orders by.
Ord(c) ==
    CASE c = "-" -> 45
      [] c \in Digits -> 48 + (CHOOSE d \in 0..9 : ToString(d) = c)
      [] c = "_" -> 95
      [] c = "a" -> 97
      [] c = "b" -> 98
      [] c = "e" -> 101
      [] c = "k" -> 107
      [] c = "x" -> 120
      [] c = "y" -> 121

RECURSIVE StrLess(_, _)
\* s < t for Python strings: lexicographic, by code point.
StrLess(s, t) ==
    IF t = <<>> THEN FALSE
    ELSE IF s = <<>> THEN TRUE
    ELSE IF Ord(Head(s)) # Ord(Head(t)) THEN Ord(Head(s)) < Ord(Head(t))
    ELSE StrLess(Tail(s), Tail(t))

RECURSIVE FilterIdent(_)
FilterIdent(name) ==
    IF name = <<>> THEN <<>>
    ELSE IF Head(name) \in IdentChars
         THEN <<Head(name)>> \o FilterIdent(Tail(name))
         ELSE FilterIdent(Tail(name))

RECURSIVE StripLeading(_)
StripLeading(identifier) ==
    IF identifier = <<>> THEN <<>>
    ELSE IF Head(identifier) \in IdentStart THEN identifier
    ELSE StripLeading(Tail(identifier))

\* _ensure_identifier: the identifier, or <<>> where the code raises NameError
\* (the loop reads identifier[0] of an empty string).
ensure_identifier(name) == StripLeading(FilterIdent(name))

-----------------------------------------------------------------------------
(* Python values: None, integers and strings *)

None == [kind |-> "none", neg |-> FALSE, digits |-> <<>>, chars |-> <<>>]
PyInt(neg, digits) ==
    [kind |-> "int", neg |-> neg, digits |-> digits, chars |-> <<>>]
PyStr(chars) == [kind |-> "str", neg |-> FALSE, digits |-> <<>>, chars |-> chars]
\* What int() answers for text that is no number (it raises ValueError).
NotANumber == [kind |-> "error", neg |-> FALSE, digits |-> <<>>, chars |-> <<>>]

DigitOf(c) == CHOOSE d \in 0..9 : ToString(d) = c
DigitChar(d) == ToString(d)

RECURSIVE DigitChars(_)
DigitChars(digits) ==
    IF digits = <<>> THEN <<>>
    ELSE <<DigitChar(Head(digits))>> \o DigitChars(Tail(digits))

RECURSIVE CharDigits(_)
CharDigits(chars) ==
    IF chars = <<>> THEN <<>>
    ELSE <<DigitOf(Head(chars))>> \o CharDigits(Tail(chars))

RECURSIVE StripZeros(_)
StripZeros(digits) ==
    IF Len(digits) > 1 /\ Head(digits) = 0 THEN StripZeros(Tail(digits))
    ELSE digits

AllDigits(chars) == chars # <<>> /\ \A i \in 1..Len(chars) : chars[i] \in Digits

\* str(value)
py_str(value) ==
    IF value.kind = "int"
    THEN PyStr((IF value.neg THEN <<"-">> ELSE <<>>) \o DigitChars(value.digits))
    ELSE value

\* int(value): an integer, or NotANumber where int() raises ValueError
py_int(value) ==
    IF value.kind = "int" THEN value
    ELSE IF AllDigits(value.chars)
         THEN PyInt(FALSE, StripZeros(CharDigits(value.chars)))
    ELSE IF value.chars # <<>> /\ Head(value.chars) = "-"
            /\ AllDigits(Tail(value.chars))
         THEN LET d == StripZeros(CharDigits(Tail(value.chars)))
              IN PyInt(d # <<0>>, d)
    ELSE NotANumber

RECURSIVE DigitsLess(_, _)
\* a < b for digit sequences of the same length
DigitsLess(a, b) ==
    IF a = <<>> THEN FALSE
    ELSE IF Head(a) # Head(b) THEN Head(a) < Head(b)
    ELSE DigitsLess(Tail(a), Tail(b))

\* value > bound, for an integer value and the digits of a positive bound
ExceedsBound(value, bound) ==
    /\ ~value.neg
    /\ \/ Len(value.digits) > Len(bound)
       \/ Len(value.digits) = Len(bound) /\ DigitsLess(bound, value.digits)

UINT32_MAX == <<4, 2, 9, 4, 9, 6, 7, 2, 9, 5>>
UINT64_MAX == <<1, 8, 4, 4, 6, 7, 4, 4, 0, 7, 3, 7, 0, 9, 5, 5, 1, 6, 1, 5>>

\* uint32 and uint64 share this shape: int(), then the two bound checks.
BoundedUInt(value, bound) ==
    LET v == py_int(value)
    IN IF v.kind = "error" THEN NotANumber
       ELSE IF ExceedsBound(v, bound) THEN NotANumber
       ELSE IF v.neg THEN NotANumber
       ELSE v

uint32(value) == BoundedUInt(value, UINT32_MAX)
uint64(value) == BoundedUInt(value, UINT64_MAX)

PARAMETER_TYPES == {"string", "uint32", "uint64"}

\* PARAMETER_TYPES[type](value)
Coerce(type, value) ==
    CASE type = "string" -> py_str(value)
      [] type = "uint32" -> uint32(value)
      [] type = "uint64" -> uint64(value)

-----------------------------------------------------------------------------
(* _MethodParameters *)

NoTable == <<>>

RECURSIVE SortByName(_)
\* sorted(unordered.items(), key=lambda a: a[0]); the names are distinct
SortByName(unordered) ==
    IF unordered = {} THEN <<>>
    ELSE LET first == CHOOSE p \in unordered :
                        \A q \in unordered \ {p} : StrLess(p.name, q.name)
         IN <<first>> \o SortByName(unordered \ {first})

RECURSIVE CollectParams(_, _, _)
\* The loop of __init__ over specs, with the dictionary built so far and the
\* warnings emitted so far.
CollectParams(specs, unordered, warned) ==
    IF specs = <<>>
    THEN [error |-> "none", unordered |-> unordered, warnings |-> warned]
    ELSE LET spec == Head(specs)
             name == ensure_identifier(spec.name)
             known == spec.type \in PARAMETER_TYPES
         IN IF spec.name = Str_key
            THEN CollectParams(Tail(specs), unordered, warned)
            ELSE IF name = <<>>
            THEN [error |-> "NameError", unordered |-> {}, warnings |-> warned]
            ELSE IF \E p \in unordered : p.name = name
            THEN [error |-> "NameError", unordered |-> {}, warnings |-> warned]
            ELSE CollectParams(
                   Tail(specs),
                   unordered \cup
                     {[name |-> name,
                       type |-> IF known THEN spec.type ELSE "string",
                       optional |-> spec.optional]},
                   IF known THEN warned ELSE Append(warned, spec.type))

\* The end of __init__ (lines 162-163): the dictionary, sorted by key.
SortedTable(r) ==
    [error |-> r.error,
     table |-> IF r.error = "none" THEN SortByName(r.unordered) ELSE NoTable,
     warnings |-> r.warnings]

\* _MethodParameters.__init__: the table in key order, or the exception
MethodParameters(specs) == SortedTable(CollectParams(specs, {}, <<>>))

RECURSIVE Join(_, _)
\* sep.join(parts)
Join(sep, parts) ==
    IF parts = <<>> THEN <<>>
    ELSE IF Len(parts) = 1 THEN Head(parts)
    ELSE Head(parts) \o sep \o Join(sep, Tail(parts))

\* SignatureList without the split into mandatory and optional: the
\* parameters in table order.
SignatureList_table_order(table) ==
    <<Str_self>>
    \o [i \in 1..Len(table) |->
          IF table[i].optional THEN table[i].name \o Str_eqNone
          ELSE table[i].name]

\* The list `signature` of the property before it is joined.
SignatureList(table) ==
    LET mandatory == SelectSeq(table, LAMBDA param : ~param.optional)
        optional == SelectSeq(table, LAMBDA param : param.optional)
    IN <<Str_self>>
       \o [i \in 1..Len(mandatory) |-> mandatory[i].name]
       \o [i \in 1..Len(optional) |-> optional[i].name \o Str_eqNone]

\* _MethodParameters.signature
signature(table) == Join(Str_sep, SignatureList(table))

\* kwargs.get(name): the keyword arguments are a function on the names given
KwGet(kwargs, name) == IF name \in DOMAIN kwargs THEN kwargs[name] ELSE None

RECURSIVE ValidateFrom(_, _, _)
\* The loop of validate over self.values(), with the values kept so far (a
\* set of <<name, value>> pairs: the dictionary `values`).
ValidateFrom(args, kwargs, values) ==
    IF args = <<>> THEN [error |-> "none", values |-> values]
    ELSE LET arg == Head(args)
             value == KwGet(kwargs, arg.name)
             coerced == Coerce(arg.type, value)
         IN IF value = None
            THEN IF ~arg.optional
                 THEN [error |-> "TypeError", values |-> {}]
                 ELSE ValidateFrom(Tail(args), kwargs, values)
            ELSE IF coerced.kind = "error"
            THEN [error |-> "ValueError", values |-> {}]
            ELSE ValidateFrom(Tail(args), kwargs,
                              values \cup {<<arg.name, coerced>>})

\* _MethodParameters.validate
validate(table, kwargs) == ValidateFrom(table, kwargs, {})

-----------------------------------------------------------------------------
(* Inputs of the parameter-table specification *)

MaxParams == 2

RawParamNames ==
    {Str_key, <<"k", "-", "e", "y">>, Str_a, <<"1", "a">>, Str_b, <<"-">>}

\* A declared type and whether the parameter is optional.
ParamKinds ==
    {<<"uint32", FALSE>>, <<"string", TRUE>>, <<"uint64", TRUE>>,
     <<"float", FALSE>>}

ParamSpecs ==
    {[name |-> n, type |-> k[1], optional |-> k[2]] :
        n \in RawParamNames, k \in ParamKinds}

SeqsUpTo(S, n) == UNION {[1..k -> S] : k \in 0..n}

KwNames == {Str_a, Str_b, Str_key}
KwValues ==
    {None, PyInt(FALSE, <<5>>), PyStr(<<"x">>),
     PyInt(FALSE, <<4, 2, 9, 4, 9, 6, 7, 2, 9, 6>>)}
KwargsSets == UNION {[D -> KwValues] : D \in SUBSET KwNames}

NoRet == [error |-> "none", values |-> {}]

IdleParams ==
    /\ p_specs = <<>>
    /\ p_phase = "idle"
    /\ p_table = NoTable
    /\ p_error = "none"
    /\ p_warnings = <<>>
    /\ p_sig = <<>>
    /\ p_kwargs = <<>>
    /\ p_ret = NoRet

\* _MethodParameters(specs)
ParamBuild ==
    /\ p_phase = "new"
    /\ LET r == MethodParameters(p_specs)
       IN /\ p_phase' = IF r.error = "none" THEN "built" ELSE "failed"
          /\ p_table' = r.table
          /\ p_error' = r.error
          /\ p_warnings' = r.warnings
    /\ UNCHANGED <<p_specs, p_sig, p_kwargs, p_ret, i_vars, a_vars>>

\* args.signature
ParamSignature ==
    /\ p_phase = "built"
    /\ p_sig' = signature(p_table)
    /\ p_phase' = "signed"
    /\ UNCHANGED <<p_specs, p_table, p_error, p_warnings, p_kwargs, p_ret,
                   i_vars, a_vars>>

\* args.validate(**kwargs)
ParamValidate ==
    /\ p_phase = "built"
    /\ \E kwargs \in KwargsSets :
          /\ p_kwargs' = kwargs
          /\ p_ret' = validate(p_table, kwargs)
    /\ p_phase' = "validated"
    /\ UNCHANGED <<p_specs, p_table, p_error, p_warnings, p_sig, i_vars, a_vars>>

-----------------------------------------------------------------------------
(* make_method and make_interface *)

NoMethod == [name |-> <<>>, version |-> 0, httpmethod |-> "", args |-> NoTable]

\* The method make_method returns for a sanitised name and a parameter
\* table, or the NameError of either.
MethodOf(spec, name, args) ==
    IF name = <<>>
    THEN [error |-> "NameError", method |-> NoMethod, warnings |-> <<>>]
    ELSE IF args.error # "none"
    THEN [error |-> args.error, method |-> NoMethod,
          warnings |-> args.warnings]
    ELSE [error |-> "none",
          method |-> [name |-> name, version |-> spec.version,
                      httpmethod |-> spec.httpmethod, args |-> args.table],
          warnings |-> args.warnings]

\* make_method
make_method(spec) ==
    MethodOf(spec, ensure_identifier(spec.name),
             MethodParameters(spec.parameters))

\* A dictionary keyed by method name, in insertion order: a sequence of
\* methods with distinct names.
DictHas(methods, name) == \E i \in 1..Len(methods) : methods[i].name = name
DictGet(methods, name) ==
    IF DictHas(methods, name)
    THEN methods[CHOOSE i \in 1..Len(methods) : methods[i].name = name]
    ELSE NoMethod
DictSet(methods, method) ==
    IF DictHas(methods, method.name)
    THEN [i \in 1..Len(methods) |->
            IF methods[i].name = method.name THEN method ELSE methods[i]]
    ELSE Append(methods, method)

\* max_versions.get(name, 0)
MaxGet(max_versions, name) ==
    IF name \in DOMAIN max_versions THEN max_versions[name] ELSE 0

Max(a, b) == IF a >= b THEN a ELSE b

\* KeepHighest without the comparison: the version seen last wins.
KeepHighest_last_seen(methods, made, current_method) ==
    [method |-> made, methods |-> DictSet(methods, made)]

\* Lines 287-291: the unpinned branch, with methods.get(method.name).
KeepHighest(methods, made, current_method) ==
    IF current_method # NoMethod /\ made.version < current_method.version
    THEN [method |-> current_method,
          methods |-> DictSet(methods, current_method)]
    ELSE [method |-> made, methods |-> DictSet(methods, made)]

\* ResolveVersion with >= for ==: the pin taken as a minimum version.
ResolveVersion_pin_is_minimum(methods, made, versions) ==
    IF made.name \notin DOMAIN versions
    THEN [method |-> made, methods |-> DictSet(methods, made)]
    ELSE IF made.version >= versions[made.name]
         THEN [method |-> made, methods |-> DictSet(methods, made)]
         ELSE [method |-> made, methods |-> methods]

\* The method that one pass of the loop leaves in `method`, and the methods
\* dictionary after it (lines 284-294). `versions` is a function on the
\* pinned names: versions.get(name) is None for a name outside its domain.
ResolveVersion(methods, made, versions) ==
    IF made.name \notin DOMAIN versions
    THEN KeepHighest(methods, made, DictGet(methods, made.name))
    ELSE IF made.version = versions[made.name]
         THEN [method |-> made, methods |-> DictSet(methods, made)]
         ELSE [method |-> made, methods |-> methods]

TypeWarning(type) ==
    [kind |-> "type", name |-> <<>>, version |-> 0, latest |-> 0,
     type |-> type]
StaleWarning(method, latest) ==
    [kind |-> "stale", name |-> method.name, version |-> method.version,
     latest |-> latest, type |-> ""]

\* The second loop of make_interface (lines 297-307), over methods.values().
StaleWarnings(methods, max_versions) ==
    LET stale == SelectSeq(methods,
                   LAMBDA m : m.version < max_versions[m.name])
    IN [i \in 1..Len(stale) |->
          StaleWarning(stale[i], max_versions[stale[i].name])]

TypeWarnings(types) == [i \in 1..Len(types) |-> TypeWarning(types[i])]

\* TrackMax without max(): the version of the pass overwrites the entry.
TrackMax_last_seen(max_versions, method) ==
    [n \in DOMAIN max_versions \cup {method.name} |->
       IF n = method.name THEN method.version ELSE max_versions[n]]

\* Lines 295-296: max_versions after a pass that left `method`.
TrackMax(max_versions, method) ==
    [n \in DOMAIN max_versions \cup {method.name} |->
       IF n = method.name
       THEN Max(method.version, MaxGet(max_versions, method.name))
       ELSE max_versions[n]]

RECURSIVE InterfaceLoop(_, _, _, _, _)
RECURSIVE InterfaceStep(_, _, _, _, _, _)
RECURSIVE InterfaceBind(_, _, _, _, _)

\* The first loop of make_interface (lines 280-296), then the second.
InterfaceLoop(method_specs, versions, methods, max_versions, warned) ==
    IF method_specs = <<>>
    THEN [error |-> "none", methods |-> methods,
          warnings |-> warned \o StaleWarnings(methods, max_versions)]
    ELSE InterfaceStep(Tail(method_specs), versions, methods, max_versions,
                       warned, make_method(Head(method_specs)))

\* One pass of the first loop, for what make_method returned or raised.
InterfaceStep(rest, versions, methods, max_versions, warned, made) ==
    IF made.error # "none"
    THEN [error |-> made.error, methods |-> <<>>,
          warnings |-> warned \o TypeWarnings(made.warnings)]
    ELSE InterfaceBind(rest, versions, max_versions,
                       warned \o TypeWarnings(made.warnings),
                       ResolveVersion(methods, made.method, versions))

\* The end of the pass: max_versions is updated, and the loop goes on.
InterfaceBind(rest, versions, max_versions, warned, r) ==
    InterfaceLoop(rest, versions, r.methods,
                  TrackMax(max_versions, r.method), warned)

\* The class make_interface returns for the outcome of its loops.
InterfaceOf(spec, r) ==
    [error |-> r.error, name |-> spec.name, methods |-> r.methods,
     warnings |-> r.warnings]

\* make_interface(spec, versions): the interface class (its name and its
\* methods), the warnings emitted, or the exception.
make_interface(spec, versions) ==
    InterfaceOf(spec, InterfaceLoop(spec.methods, versions, <<>>, <<>>, <<>>))

-----------------------------------------------------------------------------
(* Inputs of the interface specification *)

MaxMethods == 3
MaxVersion == 2

Str_IFoo == <<"I", "F", "o", "o">>
Str_IBar == <<"I", "B", "a", "r">>

DuplicateParams ==
    <<[name |-> Str_a, type |-> "string", optional |-> TRUE],
      [name |-> <<"1", "a">>, type |-> "uint32", optional |-> TRUE]>>

MethodSpec(name, version, parameters) ==
    [name |-> name, version |-> version, httpmethod |-> "GET",
     parameters |-> parameters]

\* Methods a and b in every version, a method whose raw name sanitises to a,
\* and two descriptions make_method rejects.
MethodSpecs ==
    {MethodSpec(n, v, <<>>) : n \in {Str_a, Str_b}, v \in 1..MaxVersion}
    \cup {MethodSpec(<<"1", "a">>, MaxVersion, <<>>),
          MethodSpec(<<"-">>, 1, <<>>),
          MethodSpec(Str_b, 1, DuplicateParams)}

MethodNames == {Str_a, Str_b}

\* Pins: a function from some method names to a version, declared or not.
PinSets == UNION {[D -> 1..(MaxVersion + 1)] : D \in SUBSET MethodNames}

InterfaceSpecs(name) ==
    {[name |-> name, methods |-> m] : m \in SeqsUpTo(MethodSpecs, MaxMethods)}

IdleIface ==
    /\ i_spec = [name |-> <<>>, methods |-> <<>>]
    /\ i_versions = <<>>
    /\ i_phase = "idle"
    /\ i_methods = <<>>
    /\ i_warnings = <<>>

\* make_interface(i_spec, i_versions)
MakeInterface ==
    /\ i_phase = "new"
    /\ LET r == make_interface(i_spec, i_versions)
       IN /\ i_phase' = IF r.error = "none" THEN "built" ELSE "failed"
          /\ i_methods' = r.methods
          /\ i_warnings' = r.warnings
    /\ UNCHANGED <<i_spec, i_versions, p_vars, a_vars>>

-----------------------------------------------------------------------------
(* make_interfaces *)

\* The module of interface classes: its attributes in the order they were
\* first set (setattr replaces an attribute of the same name in place), and
\* its __all__ list.
EmptyModule == [classes |-> <<>>, all |-> <<>>]

Str_get == <<"g", "e", "t">>

\* The versions argument: a pins dictionary (a function from interface names
\* to functions from method names to versions), or a module object passed in
\* its place.
PinsArg(d) == [kind |-> "dict", dict |-> d, module |-> EmptyModule]
ModuleArg(m) == [kind |-> "module", dict |-> <<>>, module |-> m]

\* versions.get(name, {}) on a dictionary
PinsFor(d, name) == IF name \in DOMAIN d THEN d[name] ELSE <<>>

\* What versions.get(...) raises when versions is a module: the module has no
\* attribute get (AttributeError), unless an interface class is named get,
\* and a class called with two arguments raises TypeError.
ModuleGetError(m) ==
    IF DictHas(m.classes, Str_get) THEN "TypeError" ELSE "AttributeError"

\* setattr(module, interface.__name__, interface), and the append to __all__.
ModuleWith(module, interface) ==
    [classes |-> DictSet(module.classes,
                         [name |-> interface.name,
                          methods |-> interface.methods]),
     all |-> Append(module.all, interface.name)]

RECURSIVE InterfacesLoop(_, _, _, _)
RECURSIVE InterfacesStep(_, _, _, _, _)

\* The loop of make_interfaces (lines 330-334).
InterfacesLoop(interface_specs, versions, module, warned) ==
    IF interface_specs = <<>>
    THEN [error |-> "none", module |-> module, warnings |-> warned]
    ELSE IF versions.kind = "module"
    THEN [error |-> ModuleGetError(versions.module), module |-> EmptyModule,
          warnings |-> warned]
    ELSE InterfacesStep(
           Tail(interface_specs), versions, module, warned,
           make_interface(Head(interface_specs),
                          PinsFor(versions.dict, Head(interface_specs).name)))

\* One pass of the loop, for what make_interface returned or raised.
InterfacesStep(rest, versions, module, warned, r) ==
    IF r.error # "none"
    THEN [error |-> r.error, module |-> EmptyModule,
          warnings |-> warned \o r.warnings]
    ELSE InterfacesLoop(rest, versions, ModuleWith(module, r),
                        warned \o r.warnings)

\* make_interfaces(api_list, versions)
make_interfaces(api_list, versions) ==
    InterfacesLoop(api_list.apilist.interfaces, versions, EmptyModule, <<>>)

-----------------------------------------------------------------------------
(* The API client *)

Str_json == <<"j", "s", "o", "n">>
Str_xml == <<"x", "m", "l">>
Str_vdf == <<"v", "d", "f">>
Str_yaml == <<"y", "a", "m", "l">>
Str_format == <<"f", "o", "r", "m", "a", "t">>
Str_GET == <<"G", "E", "T">>
Str_ISteamWebAPIUtil ==
    <<"I", "S", "t", "e", "a", "m", "W", "e", "b", "A", "P", "I", "U", "t", "i", "l">>
Str_GetSupportedAPIList ==
    <<"G", "e", "t", "S", "u", "p", "p", "o", "r", "t", "e", "d", "A", "P", "I", "L", "i", "s", "t">>
\* What the attribute .format of a str is: the bound method str.format.
Str_method == <<"<built-in method format>">>

API_RESPONSE_FORMATS == {Str_json, Str_vdf, Str_xml}

api_root == "https://api.steampowered.com/"

\* A response formatter: a callable with an attribute format, or a str
\* given in its place (format.format is then the method str.format).
Decoder(id, format) == [kind |-> "decoder", id |-> id, format |-> format]
FormatStr(text) == [kind |-> "str", id |-> "str", format |-> text]
NoFormat == [kind |-> "none", id |-> "None", format |-> <<>>]

json_format == Decoder("json_format", Str_json)
etree_format == Decoder("etree_format", Str_xml)
vdf_format == Decoder("vdf_format", Str_vdf)

\* format.format
FormatAttr(format) ==
    IF format.kind = "str" THEN Str_method ELSE format.format

\* The test of line 439, negated: request goes on to the transport.
DecoderAccepted(format) == FormatAttr(format) \in API_RESPONSE_FORMATS

\* bool(value) for None, a str or an int
Truthy(value) ==
    CASE value.kind = "none" -> FALSE
      [] value.kind = "str" -> value.chars # <<>>
      [] value.kind = "int" -> value.digits # <<0>>

\* RequestParams without the del: the caller's key stays unless the client
\* overwrites it.
RequestParams_keeps_caller_key(params, format, key) ==
    LET names == DOMAIN params \cup {Str_format}
                 \cup (IF Truthy(key) THEN {Str_key} ELSE {})
    IN [n \in names |->
          IF n = Str_key /\ Truthy(key) THEN key
          ELSE IF n = Str_format THEN PyStr(FormatAttr(format))
          ELSE params[n]]

\* Lines 443-447: the parameters handed to the transport. params is a
\* function from parameter names to values.
RequestParams(params, format, key) ==
    LET names == ((DOMAIN params \cup {Str_format}) \ {Str_key})
                 \cup (IF Truthy(key) THEN {Str_key} ELSE {})
    IN [n \in names |->
          IF n = Str_key THEN key
          ELSE IF n = Str_format THEN PyStr(FormatAttr(format))
          ELSE params[n]]

RECURSIVE IntDigits(_)
IntDigits(n) ==
    IF n < 10 THEN <<n>> ELSE IntDigits(n \div 10) \o <<n % 10>>

\* "{interface}/{method}/v{version}/".format(...)
Path(interface, method, version) ==
    interface \o <<"/">> \o method \o <<"/", "v">>
    \o py_str(PyInt(FALSE, IntDigits(version))).chars \o <<"/">>

\* Dispatch with the format test after the transport call.
Dispatch_check_after_send(self, http_method, path, params, fmt, log) ==
    [error |-> IF DecoderAccepted(fmt) THEN "none" ELSE "ValueError",
     decoded_by |-> IF DecoderAccepted(fmt) THEN fmt ELSE NoFormat,
     sent |-> Append(log,
                [http_method |-> http_method,
                 url |-> <<api_root, path>>,
                 params |-> RequestParams(params, fmt, self.key)])]

\* Lines 439-449, for the formatter selected: the exception, or the call
\* handed to the transport and the formatter that decodes the response.
Dispatch(self, http_method, path, params, fmt, log) ==
    IF ~DecoderAccepted(fmt)
    THEN [error |-> "ValueError", decoded_by |-> NoFormat, sent |-> log]
    ELSE [error |-> "none", decoded_by |-> fmt,
          sent |-> Append(log,
                     [http_method |-> http_method,
                      url |-> <<api_root, path>>,
                      params |-> RequestParams(params, fmt, self.key)])]

\* API.request on the client `self`, with the calls the transport has seen
\* so far: the outcome, and the calls the transport has seen afterwards.
request(self, http_method, interface, method, version, params, format, log) ==
    Dispatch(self, http_method, Path(interface, method, version), params,
             IF format = NoFormat THEN self.format ELSE format, log)

NoClient ==
    [exists |-> FALSE, key |-> None, format |-> NoFormat,
     module |-> EmptyModule, interfaces |-> <<>>]

\* _bind_interfaces: one instance per class of the module, under the name of
\* the module attribute.
bind_interfaces(module) ==
    [i \in 1..Len(module.classes) |->
       [name |-> module.classes[i].name, class |-> module.classes[i]]]

NoVersions == [kind |-> "none", dict |-> <<>>, module |-> EmptyModule]
NoInterfaces == [given |-> FALSE, module |-> EmptyModule]

\* versions or {}: None and the empty dictionary are falsy, a module is not
VersionsOrEmpty(versions) ==
    IF versions.kind = "none" THEN PinsArg(<<>>) ELSE versions

\* Lines 378-383
FormatOf(format) ==
    IF format = FormatStr(Str_json) THEN json_format
    ELSE IF format = FormatStr(Str_xml) THEN etree_format
    ELSE IF format = FormatStr(Str_vdf) THEN vdf_format
    ELSE format

\* The client with its module set and its interfaces bound (lines 387-394).
Bound(self, module) ==
    [self EXCEPT !.module = module, !.interfaces = bind_interfaces(module)]

\* Lines 387-394 for the outcome r of the discovery request and the outcome
\* m of make_interfaces on its response.
Discovered(self, r, m, nbuilds) ==
    IF r.error # "none"
    THEN [error |-> r.error, client |-> NoClient, sent |-> r.sent,
          builds |-> nbuilds]
    ELSE IF m.error # "none"
    THEN [error |-> m.error, client |-> NoClient, sent |-> r.sent,
          builds |-> nbuilds + 1]
    ELSE [error |-> "none", client |-> Bound(self, m.module),
          sent |-> r.sent, builds |-> nbuilds + 1]

\* Lines 386-394 for the client with its key and format set.
LoadInterfaces(self, versions, interfaces, server, log, nbuilds) ==
    IF interfaces.given
    THEN [error |-> "none", client |-> Bound(self, interfaces.module),
          sent |-> log, builds |-> nbuilds]
    ELSE Discovered(self,
                    request(self, Str_GET, Str_ISteamWebAPIUtil,
                            Str_GetSupportedAPIList, 1, <<>>, json_format,
                            log),
                    make_interfaces(server, VersionsOrEmpty(versions)),
                    nbuilds)

\* API.__init__(key, format, versions, interfaces), where the server answers
\* the discovery request with `server`: the client or the exception, the
\* calls the transport has seen and the runs of make_interfaces afterwards.
APIInit(key, format, versions, interfaces, server, log, nbuilds) ==
    LoadInterfaces([exists |-> TRUE, key |-> key, format |-> FormatOf(format),
                    module |-> EmptyModule, interfaces |-> <<>>],
                   versions, interfaces, server, log, nbuilds)

\* The body of API.session: API(self.key, self.format, self._interfaces_module)
\* gives the module as the third positional argument, which is `versions`.
session(self, server, log, nbuilds) ==
    APIInit(self.key, self.format, ModuleArg(self.module), NoInterfaces,
            server, log, nbuilds)

\* pin_versions without the inner loop: every interface maps to {}.
pin_versions_no_methods(self) ==
    [n \in {self.interfaces[i].class.name : i \in 1..Len(self.interfaces)} |->
       <<>>]

\* API.pin_versions
pin_versions(self) ==
    LET names == {self.interfaces[i].class.name :
                    i \in 1..Len(self.interfaces)}
        \* a later interface of the same name overwrites the earlier entry
        ClassOf(n) ==
            self.interfaces[CHOOSE i \in 1..Len(self.interfaces) :
                /\ self.interfaces[i].class.name = n
                /\ \A j \in (i + 1)..Len(self.interfaces) :
                      self.interfaces[j].class.name # n].class
    IN [n \in names |->
          LET methods == ClassOf(n).methods
          IN [mn \in {methods[i].name : i \in 1..Len(methods)} |->
                DictGet(methods, mn).version]]

-----------------------------------------------------------------------------
(* Inputs and actions of the client specifications *)

MaxSent == 3
MaxInterfaces == 2

Catalog(interfaces) == [apilist |-> [interfaces |-> interfaces]]

Interface(name, methods) == [name |-> name, methods |-> methods]

\* The catalogs of the request and session specification: an empty one, one
\* with an interface of two versions of a method, one make_method rejects.
SmallCatalogs ==
    {Catalog(<<>>),
     Catalog(<<Interface(Str_IFoo, <<MethodSpec(Str_a, 1, <<>>),
                                     MethodSpec(Str_a, MaxVersion, <<>>)>>)>>),
     Catalog(<<Interface(Str_IFoo, <<MethodSpec(<<"-">>, 1, <<>>)>>)>>)}

\* The catalogs of the pinning specification: an interface IFoo of methods
\* a (in every version) and b, alone or followed by further interfaces, of
\* another name or of the same name.
PinMethodSpecs ==
    {MethodSpec(Str_a, v, <<>>) : v \in 1..MaxVersion}
    \cup {MethodSpec(Str_b, 1, <<>>)}
PinInterfaces ==
    {Interface(Str_IFoo, m) : m \in SeqsUpTo(PinMethodSpecs, MaxMethods)}
SecondInterfaces ==
    {Interface(Str_IBar, <<MethodSpec(Str_b, 1, <<>>)>>),
     Interface(Str_IFoo, <<MethodSpec(Str_a, 1, <<>>)>>)}
PinCatalogs ==
    {Catalog(<<>>)}
    \cup {Catalog(<<i>> \o rest) :
            i \in PinInterfaces,
            rest \in SeqsUpTo(SecondInterfaces, MaxInterfaces - 1)}

Keys == {None, PyStr(<<>>), PyStr(<<"K">>)}
custom_yaml == Decoder("custom_yaml", Str_yaml)
custom_json == Decoder("custom_json", Str_json)
Formats ==
    {FormatStr(Str_json), FormatStr(Str_xml), FormatStr(Str_yaml),
     custom_yaml, custom_json}
FewVersions == {NoVersions, PinsArg([n \in {Str_IFoo} |-> [m \in {Str_a} |-> 1]])}
ManyVersions ==
    {NoVersions} \cup {PinsArg([n \in {Str_IFoo} |-> p]) : p \in PinSets}

CallerParams == UNION {[D -> {PyStr(<<"U">>)}] : D \in SUBSET {Str_key, Str_a}}
Overrides == {NoFormat, vdf_format, custom_yaml}

NoLast ==
    [op |-> "none", who |-> "", error |-> "none", format |-> NoFormat,
     params |-> <<>>, sentBefore |-> 0, buildsBefore |-> 0]

IdleAPI ==
    /\ catalog = Catalog(<<>>)
    /\ api = NoClient
    /\ given = NoVersions
    /\ sub = NoClient
    /\ api2 = NoClient
    /\ pins = NoVersions
    /\ sent = <<>>
    /\ builds = 0
    /\ last = NoLast

\* API(key, format, versions)
ConstructFrom(keys, formats, versionSets) ==
    /\ last.op = "none"
    /\ \E key \in keys, format \in formats, versions \in versionSets :
          LET r == APIInit(key, format, versions, NoInterfaces, catalog,
                           sent, builds)
          IN /\ api' = r.client
             /\ given' = versions
             /\ sent' = r.sent
             /\ builds' = r.builds
             /\ last' = [NoLast EXCEPT !.op = "construct", !.who = "api",
                           !.error = r.error, !.format = format,
                           !.sentBefore = Len(sent), !.buildsBefore = builds]
    /\ UNCHANGED <<catalog, sub, api2, pins, p_vars, i_vars>>

Construct == ConstructFrom(Keys, Formats, FewVersions)

ConstructPinned == ConstructFrom({None}, {FormatStr(Str_json)}, ManyVersions)

ClientNamed(who) ==
    CASE who = "api" -> api
      [] who = "sub" -> sub
      [] who = "api2" -> api2

\* client.request(http_method, interface, method, version, params, format)
Request ==
    /\ Len(sent) < MaxSent
    /\ \E who \in {"api", "sub"}, params \in CallerParams,
          format \in Overrides, version \in {1, MaxVersion} :
          /\ ClientNamed(who).exists
          /\ LET r == request(ClientNamed(who), Str_GET, Str_IFoo, Str_a,
                              version, params, format, sent)
             IN /\ sent' = r.sent
                /\ last' = [NoLast EXCEPT !.op = "request", !.who = who,
                              !.error = r.error, !.format = format,
                              !.params = params, !.sentBefore = Len(sent),
                              !.buildsBefore = builds]
    /\ UNCHANGED <<catalog, api, given, sub, api2, pins, builds, p_vars, i_vars>>

\* with api.session() as sub
Session ==
    /\ api.exists
    /\ ~sub.exists
    /\ Len(sent) < MaxSent
    /\ LET r == session(api, catalog, sent, builds)
       IN /\ sub' = r.client
          /\ sent' = r.sent
          /\ builds' = r.builds
          /\ last' = [NoLast EXCEPT !.op = "session", !.who = "sub",
                        !.error = r.error, !.format = api.format,
                        !.sentBefore = Len(sent), !.buildsBefore = builds]
    /\ UNCHANGED <<catalog, api, given, api2, pins, p_vars, i_vars>>

\* pins = api.pin_versions()
PinVersions ==
    /\ api.exists
    /\ pins = NoVersions
    /\ pins' = PinsArg(pin_versions(api))
    /\ last' = [NoLast EXCEPT !.op = "pin_versions", !.who = "api",
                  !.sentBefore = Len(sent), !.buildsBefore = builds]
    /\ UNCHANGED <<catalog, api, given, sub, api2, sent, builds, p_vars, i_vars>>

\* api2 = API(api.key, api.format, versions=pins), against the same catalog
Rebuild ==
    /\ pins # NoVersions
    /\ last.op = "pin_versions"
    /\ LET r == APIInit(api.key, api.format, pins, NoInterfaces, catalog,
                        sent, builds)
       IN /\ api2' = r.client
          /\ sent' = r.sent
          /\ builds' = r.builds
          /\ last' = [NoLast EXCEPT !.op = "rebuild", !.who = "api2",
                        !.error = r.error, !.format = api.format,
                        !.sentBefore = Len(sent), !.buildsBefore = builds]
    /\ UNCHANGED <<catalog, api, given, sub, pins, p_vars, i_vars>>

-----------------------------------------------------------------------------
(* Specifications *)

\* The parameter table of one method: construction, then signature or validate.
InitParams ==
    /\ p_specs \in SeqsUpTo(ParamSpecs, MaxParams)
    /\ p_phase = "new"
    /\ p_table = NoTable
    /\ p_error = "none"
    /\ p_warnings = <<>>
    /\ p_sig = <<>>
    /\ p_kwargs = <<>>
    /\ p_ret = NoRet
    /\ IdleIface
    /\ IdleAPI

NextParams == ParamBuild \/ ParamSignature \/ ParamValidate

SpecParams == InitParams /\ [][NextParams]_vars

\* One call of make_interface.
InitIface ==
    /\ i_spec \in InterfaceSpecs(Str_IFoo)
    /\ i_versions \in PinSets
    /\ i_phase = "new"
    /\ i_methods = <<>>
    /\ i_warnings = <<>>
    /\ IdleParams
    /\ IdleAPI

NextIface == MakeInterface

SpecIface == InitIface /\ [][NextIface]_vars

\* A client, its requests and its session.
InitAPI ==
    /\ catalog \in SmallCatalogs
    /\ api = NoClient
    /\ given = NoVersions
    /\ sub = NoClient
    /\ api2 = NoClient
    /\ pins = NoVersions
    /\ sent = <<>>
    /\ builds = 0
    /\ last = NoLast
    /\ IdleParams
    /\ IdleIface

NextAPI == Construct \/ Request \/ Session

SpecAPI == InitAPI /\ [][NextAPI]_vars

\* A client, its pin_versions() and the client rebuilt from them.
InitPins ==
    /\ catalog \in PinCatalogs
    /\ api = NoClient
    /\ given = NoVersions
    /\ sub = NoClient
    /\ api2 = NoClient
    /\ pins = NoVersions
    /\ sent = <<>>
    /\ builds = 0
    /\ last = NoLast
    /\ IdleParams
    /\ IdleIface

NextPins == ConstructPinned \/ PinVersions \/ Rebuild

SpecPins == InitPins /\ [][NextPins]_vars


-----------------------------------------------------------------------------
(* Properties of the parameter table, under SpecParams *)

TableBuilt == p_phase \in {"built", "signed", "validated"}
TableEntries == {p_table[i] : i \in 1..Len(p_table)}

\* The one sequence that lists the names of S in ascending string order.
Ascending(S) ==
    CHOOSE q \in [1..Cardinality(S) -> S] :
        \A i, j \in 1..Cardinality(S) : i < j => StrLess(q[i], q[j])

\* C4: in every constructed parameter table no entry has the name key, for
\* the sanitised names the table stores.
C4_NoKeyEntry == TableBuilt => \A p \in TableEntries : p.name # Str_key

\* C9: validate() fails with TypeError exactly when some mandatory parameter
\* is not supplied or supplied as None; otherwise, when every coercion
\* succeeds, it returns exactly the declared parameters supplied with a value
\* that is not None, each mapped to its coerced value.
C9_ValidateContract ==
    p_phase = "validated" =>
        LET Supplied(p) == KwGet(p_kwargs, p.name) # None
            missing == \E p \in TableEntries : ~p.optional /\ ~Supplied(p)
            coercible ==
                \A p \in TableEntries :
                    Supplied(p) =>
                        Coerce(p.type, KwGet(p_kwargs, p.name)).kind # "error"
        IN /\ (p_ret.error = "TypeError") <=> missing
           /\ (~missing /\ coercible) =>
                /\ p_ret.error = "none"
                /\ p_ret.values =
                     {<<p.name, Coerce(p.type, KwGet(p_kwargs, p.name))>> :
                        p \in {q \in TableEntries : Supplied(q)}}

\* C10: the signature is self, then every mandatory parameter of the table
\* in ascending order of name, then every optional parameter in ascending
\* order of name with the default None, each parameter once.
C10_SignatureOrder ==
    p_phase = "signed" =>
        LET mandatory == Ascending({p.name : p \in
                            {q \in TableEntries : ~q.optional}})
            optional == Ascending({p.name : p \in
                            {q \in TableEntries : q.optional}})
        IN p_sig = Join(Str_sep,
                        <<Str_self>> \o mandatory
                        \o [i \in 1..Len(optional) |->
                              optional[i] \o Str_eqNone])

\* A signature was computed for a table whose raw descriptions came in
\* descending order of name, the optional one sorting before the mandatory.
C10_Witness ==
    /\ p_phase = "signed"
    /\ Len(p_specs) = 2
    /\ p_specs[1].name = Str_b /\ ~p_specs[1].optional
    /\ p_specs[2].name = Str_a /\ p_specs[2].optional
    /\ Len(p_table) = 2

-----------------------------------------------------------------------------
(* Properties of make_interface, under SpecIface *)

\* The name make_method gives the k-th method description.
NameOf(k) == ensure_identifier(i_spec.methods[k].name)
DeclaredNames == {NameOf(k) : k \in 1..Len(i_spec.methods)}
\* The versions declared for a method name.
Declared(name) ==
    {i_spec.methods[k].version :
        k \in {j \in 1..Len(i_spec.methods) : NameOf(j) = name}}
SetMax(S) == CHOOSE x \in S : \A y \in S : y <= x
BoundAs(name) == {k \in 1..Len(i_methods) : i_methods[k].name = name}
StaleOf(name) ==
    {k \in 1..Len(i_warnings) :
        i_warnings[k].kind = "stale" /\ i_warnings[k].name = name}

\* C5: a method name with no pin is bound exactly once, at the maximum of
\* the versions declared for it, whatever their order.
C5_UnpinnedHighest ==
    i_phase = "built" =>
        \A n \in DeclaredNames \ DOMAIN i_versions :
            /\ Cardinality(BoundAs(n)) = 1
            /\ \A k \in BoundAs(n) :
                  i_methods[k].version = SetMax(Declared(n))

\* An unpinned name was declared three times, a higher version before a
\* lower one and a version repeated.
C5_Witness ==
    /\ i_phase = "built"
    /\ Len(i_spec.methods) = 3
    /\ \A k \in 1..3 : NameOf(k) = Str_a
    /\ Str_a \notin DOMAIN i_versions
    /\ i_spec.methods[1].version > i_spec.methods[2].version
    /\ i_spec.methods[2].version = i_spec.methods[3].version

\* C6: a method name with a pin is bound if and only if the pinned version
\* is among the versions declared for it, and then at the pinned version.
C6_PinnedExact ==
    i_phase = "built" =>
        \A n \in DOMAIN i_versions :
            /\ Cardinality(BoundAs(n)) <= 1
            /\ (BoundAs(n) # {}) <=> (i_versions[n] \in Declared(n))
            /\ \A k \in BoundAs(n) : i_methods[k].version = i_versions[n]

\* One name is pinned to the lower of its two declared versions and bound;
\* another is pinned to a version never declared for it and left unbound.
C6_Witness ==
    /\ i_phase = "built"
    /\ DOMAIN i_versions = {Str_a, Str_b}
    /\ Declared(Str_a) = {1, 2} /\ i_versions[Str_a] = 1
    /\ BoundAs(Str_a) # {}
    /\ Declared(Str_b) # {} /\ i_versions[Str_b] \notin Declared(Str_b)
    /\ BoundAs(Str_b) = {}

\* C7: a StaleVersionPinned warning is emitted once for each bound method
\* whose version is below the maximum declared for its name, and for nothing
\* else: not for a method bound at the maximum, not for an unpinned method,
\* not for a name left unbound.
C7_StaleWarnings ==
    i_phase = "built" =>
        /\ \A k \in 1..Len(i_methods) :
              Cardinality(StaleOf(i_methods[k].name)) =
                 IF i_methods[k].version
                      < SetMax(Declared(i_methods[k].name))
                 THEN 1 ELSE 0
        /\ \A k \in 1..Len(i_warnings) :
              i_warnings[k].kind = "stale" =>
                 /\ BoundAs(i_warnings[k].name) # {}
                 /\ i_warnings[k].name \in DOMAIN i_versions
                 /\ i_warnings[k].version = i_versions[i_warnings[k].name]
                 /\ i_warnings[k].latest
                      = SetMax(Declared(i_warnings[k].name))

\* A method pinned below a higher version declared before it is bound and
\* warned about, while an unpinned method is bound with no warning.
C7_Witness ==
    /\ i_phase = "built"
    /\ Len(i_spec.methods) = 3
    /\ NameOf(1) = Str_a /\ i_spec.methods[1].version = 2
    /\ NameOf(2) = Str_a /\ i_spec.methods[2].version = 1
    /\ NameOf(3) = Str_b
    /\ DOMAIN i_versions = {Str_a} /\ i_versions[Str_a] = 1
    /\ Cardinality(StaleOf(Str_a)) = 1
    /\ BoundAs(Str_b) # {} /\ StaleOf(Str_b) = {}

-----------------------------------------------------------------------------
(* Properties of the client, under SpecAPI and SpecPins *)

\* The client holds a key: one that request() finds true.
HoldsKey(key) == key # None /\ key # PyStr(<<>>)

WireFormats == {Str_json, Str_xml, Str_vdf}

\* C1: session() on a Ready client yields a client with the interface set
\* the original holds, and issues no discovery request and no run of
\* make_interfaces.
C1_SessionNoRebuild ==
    last.op = "session" =>
        /\ last.error = "none"
        /\ sub.exists
        /\ sub.module = api.module
        /\ Len(sent) = last.sentBefore
        /\ builds = last.buildsBefore

\* The (interface, method, version) triples a client has bound.
Triples(client) ==
    UNION {{<<client.interfaces[i].class.name,
              client.interfaces[i].class.methods[k].name,
              client.interfaces[i].class.methods[k].version>> :
               k \in 1..Len(client.interfaces[i].class.methods)} :
            i \in 1..Len(client.interfaces)}

DeclaredIn(interface, method) ==
    LET specs == catalog.apilist.interfaces
        defining == CHOOSE i \in 1..Len(specs) :
                      /\ specs[i].name = interface
                      /\ \A j \in (i + 1)..Len(specs) :
                            specs[j].name # interface
    IN {specs[defining].methods[k].version :
          k \in {j \in 1..Len(specs[defining].methods) :
                   ensure_identifier(specs[defining].methods[j].name)
                     = method}}

C3_KeyIsClientsOwn ==
    /\ api.exists =>
          \A k \in 1..Len(sent) :
             /\ (Str_key \in DOMAIN sent[k].params) <=> HoldsKey(api.key)
             /\ Str_key \in DOMAIN sent[k].params =>
                   sent[k].params[Str_key] = api.key
    /\ (last.op = "request" /\ last.error = "none"
        /\ Str_key \in DOMAIN last.params) =>
          \/ Str_key \notin DOMAIN sent[Len(sent)].params
          \/ sent[Len(sent)].params[Str_key] # last.params[Str_key]

\* A client holding a key sent a request whose caller supplied a key of
\* their own.
C3_Witness ==
    /\ last.op = "request" /\ last.error = "none"
    /\ Str_key \in DOMAIN last.params
    /\ HoldsKey(api.key)
    /\ Len(sent) = last.sentBefore + 1
    /\ sent[Len(sent)].params[Str_key] = api.key

\* The formatter a request selects: the override, else the client's default.
SelectedFormat ==
    IF last.format = NoFormat THEN ClientNamed(last.who).format
    ELSE last.format

\* C8: a request whose selected decoder declares a format outside json, xml
\* and vdf fails with ValueError and makes no transport call; a transport
\* call is made only for a decoder whose format passed.
C8_DecoderCheckedFirst ==
    last.op = "request" =>
        /\ FormatAttr(SelectedFormat) \notin WireFormats =>
              last.error = "ValueError" /\ Len(sent) = last.sentBefore
        /\ Len(sent) > last.sentBefore =>
              FormatAttr(SelectedFormat) \in WireFormats
        /\ \A k \in 1..Len(sent) :
              sent[k].params[Str_format].chars \in WireFormats

\* A request with a decoder declaring yaml failed on a client that had
\* already made transport calls.
C8_Witness ==
    /\ last.op = "request"
    /\ last.format = custom_yaml
    /\ last.error = "ValueError"
    /\ Len(sent) = last.sentBefore
    /\ Len(sent) >= 2

====
